---------------------------- MODULE Spec2Model ----------------------------
(***************************************************************************)
(* Model of pkg/agent/kubeagent.go: the KubeAgent identity built by the    *)
(* functional options of NewKubeAgent, the choice of the otel              *)
(* configuration file by GetUpdatedYAMLPath and the assembly of the otel   *)
(* factory maps by GetFactories.                                           *)
(*                                                                         *)
(* A Go string that the code takes apart (dockerEndpoint) is a sequence    *)
(* of one-character strings; a string the code only stores is a TLA+       *)
(* string.  A Go error is a sequence: <<>> is nil.                         *)
(***************************************************************************)
EXTENDS Integers, Sequences, FiniteSets, TLC

(***************************************************************************)
(* Bounds of the model.                                                    *)
(***************************************************************************)
\* longest option list handed to NewKubeAgent
MaxOpts == 3
\* longest dockerEndpoint string
MaxEndpointLen == 5
\* most factories added to one kind's fixed list
MaxInject == 2

VARIABLES
    phase,        \* "start" before NewKubeAgent returns, "constructed" after
    opts,         \* the options the caller hands to NewKubeAgent
    agent,        \* the KubeAgent behind the returned pointer
    yamlPc,       \* "idle" | "done": GetUpdatedYAMLPath has returned
    yamlRet,      \* what the last GetUpdatedYAMLPath returned: [path, err]
    probes,       \* the isSocketFn calls of the last GetUpdatedYAMLPath: [arg, ans]
    catalog,      \* the factory lists handed to the four MakeFactoryMap calls
    facPc,        \* where GetFactories stands
    factories,    \* GetFactories' local otelcol.Factories
    facRet,       \* what GetFactories returned: [factories, err]
    cancelledAt   \* facPc when ctx was cancelled, "never" while it is not

vars == <<phase, opts, agent, yamlPc, yamlRet, probes, catalog, facPc,
          factories, facRet, cancelledAt>>

(***************************************************************************)
(* Values.                                                                 *)
(***************************************************************************)
\* a nil *zap.Logger
NilLogger == "nil"
\* the logger zap.NewProduction() builds
ProductionLogger == "zap.NewProduction"
\* loggers a caller may build itself
CustomLoggers == {"L1", "L2"}
\* a nil error
NilErr == <<>>

FieldNames == {"apiKey", "target", "enableSytheticMonitoring",
               "configCheckInterval", "apiURLForConfigCheck", "logger",
               "dockerEndpoint"}

\* var cfg KubeAgent: every field at its zero value
KubeAgent == [apiKey |-> "", target |-> "",
              enableSytheticMonitoring |-> FALSE,
              configCheckInterval |-> "", apiURLForConfigCheck |-> "",
              logger |-> NilLogger, dockerEndpoint |-> <<>>]

(***************************************************************************)
(* The functional options.  A KubeOptions value is the assignment its      *)
(* closure performs: the field it writes and the value it writes.          *)
(***************************************************************************)
WithKubeAgentApiKey(key) == [field |-> "apiKey", value |-> key]

WithKubeAgentTarget(t) == [field |-> "target", value |-> t]

WithKubeAgentEnableSyntheticMonitoring(e) ==
    [field |-> "enableSytheticMonitoring", value |-> e]

WithKubeAgentConfigCheckInterval(c) ==
    [field |-> "configCheckInterval", value |-> c]

WithKubeAgentApiURLForConfigCheck(u) ==
    [field |-> "apiURLForConfigCheck", value |-> u]

WithKubeAgentLogger(logger) == [field |-> "logger", value |-> logger]

WithKubeAgentDockerEndpoint(endpoint) ==
    [field |-> "dockerEndpoint", value |-> endpoint]

\* apply(&cfg): the closure's one assignment
KubeOptions(apply, h) == [h EXCEPT ![apply.field] = apply.value]

\* for _, apply := range opts { apply(&cfg) }
RECURSIVE ApplyOpts(_, _)
ApplyOpts(os, cfg) ==
    IF os = <<>> THEN cfg
    ELSE ApplyOpts(Tail(os), KubeOptions(Head(os), cfg))

\* the loop run from the last option to the first
RECURSIVE ApplyOpts_Reversed(_, _)
ApplyOpts_Reversed(os, cfg) ==
    IF os = <<>> THEN cfg
    ELSE KubeOptions(Head(os), ApplyOpts_Reversed(Tail(os), cfg))

\* if cfg.logger == nil { cfg.logger, _ = zap.NewProduction() }
\* the default is installed whatever the options left
DefaultLogger_Always(cfg) == [cfg EXCEPT !.logger = ProductionLogger]

\* if cfg.logger == nil { cfg.logger, _ = zap.NewProduction() }
DefaultLogger(cfg) ==
    IF cfg.logger = NilLogger
    THEN [cfg EXCEPT !.logger = ProductionLogger]
    ELSE cfg

\* the options are applied last to first
BuildKubeAgent_Reversed(os) == DefaultLogger(ApplyOpts_Reversed(os, KubeAgent))

\* the value NewKubeAgent(opts...) returns a pointer to
BuildKubeAgent(os) == DefaultLogger(ApplyOpts(os, KubeAgent))

(***************************************************************************)
(* strings.Split and the path selection.                                   *)
(***************************************************************************)
\* the "//" separator of GetUpdatedYAMLPath
Sep == <<"/", "/">>

FullPath == "/app/otel-config.yaml"
ReducedPath == "/app/otel-config-nodocker.yaml"

HasPrefix(s, p) == Len(s) >= Len(p) /\ SubSeq(s, 1, Len(p)) = p

\* strings.Index(s, sep), 1-based; 0 when sep does not occur
Index(s, sep) ==
    LET hits == {i \in 1..Len(s) : HasPrefix(SubSeq(s, i, Len(s)), sep)}
    IN IF hits = {} THEN 0
       ELSE CHOOSE i \in hits : \A j \in hits : i <= j

\* strings.SplitN(s, sep, 2): cut at the first separator only
SplitFirst(s, sep) ==
    LET i == Index(s, sep)
    IN IF i = 0 THEN <<s>>
       ELSE <<SubSeq(s, 1, i - 1), SubSeq(s, i + Len(sep), Len(s))>>

\* strings.Split(s, sep) for a non-empty sep: cut at every separator, left to
\* right, each search starting after the separator found before
RECURSIVE Split(_, _)
Split(s, sep) ==
    LET i == Index(s, sep)
    IN IF i = 0 THEN <<s>>
       ELSE <<SubSeq(s, 1, i - 1)>> \o Split(SubSeq(s, i + Len(sep), Len(s)), sep)


\* both conditions must fail before the reduced file is chosen (&& for ||)
YAMLPathResult_And(dockerSocketPath, live) ==
    [path |-> IF Len(dockerSocketPath) # 2 /\ ~live THEN ReducedPath ELSE FullPath,
     err  |-> NilErr]

\* an endpoint that does not split in two is reported as an error
YAMLPathResult_Strict(dockerSocketPath, live) ==
    IF Len(dockerSocketPath) # 2
    THEN [path |-> "", err |-> <<"invalid docker endpoint">>]
    ELSE [path |-> IF live THEN FullPath ELSE ReducedPath, err |-> NilErr]

\* the two return values of GetUpdatedYAMLPath once the split is known and the
\* probe, if it was called, has answered
YAMLPathResult(dockerSocketPath, live) ==
    [path |-> IF Len(dockerSocketPath) # 2 \/ ~live THEN ReducedPath ELSE FullPath,
     err  |-> NilErr]

\* the probe is called before the length is looked at
GetUpdatedYAMLPath_EagerProbe ==
    /\ phase = "constructed"
    /\ LET dockerSocketPath == Split(agent.dockerEndpoint, Sep)
       IN \E live \in BOOLEAN :
            /\ probes' = <<[arg |-> dockerSocketPath[Len(dockerSocketPath)],
                            ans |-> live]>>
            /\ yamlRet' = YAMLPathResult(dockerSocketPath, live)
    /\ yamlPc' = "done"
    /\ UNCHANGED <<phase, opts, agent, catalog, facPc, factories, facRet,
                   cancelledAt>>

\* the split is kept in the receiver: k.dockerEndpoint = dockerSocketPath[0]
GetUpdatedYAMLPath_Storing ==
    /\ phase = "constructed"
    /\ LET dockerSocketPath == Split(agent.dockerEndpoint, Sep)
       IN /\ IF Len(dockerSocketPath) # 2
             THEN /\ probes' = <<>>
                  /\ yamlRet' = YAMLPathResult(dockerSocketPath, FALSE)
             ELSE \E live \in BOOLEAN :
                    /\ probes' = <<[arg |-> dockerSocketPath[2], ans |-> live]>>
                    /\ yamlRet' = YAMLPathResult(dockerSocketPath, live)
          /\ agent' = [agent EXCEPT !.dockerEndpoint = dockerSocketPath[1]]
    /\ yamlPc' = "done"
    /\ UNCHANGED <<phase, opts, catalog, facPc, factories, facRet, cancelledAt>>

\* func (k *KubeAgent) GetUpdatedYAMLPath() (string, error).  isSocketFn is
\* called only when the split has two parts (|| short-circuits); what it
\* answers is the operating system's to decide.
GetUpdatedYAMLPath ==
    /\ phase = "constructed"
    /\ LET dockerSocketPath == Split(agent.dockerEndpoint, Sep)
       IN IF Len(dockerSocketPath) # 2
          THEN /\ probes' = <<>>
               /\ yamlRet' = YAMLPathResult(dockerSocketPath, FALSE)
          ELSE \E live \in BOOLEAN :
                 /\ probes' = <<[arg |-> dockerSocketPath[2], ans |-> live]>>
                 /\ yamlRet' = YAMLPathResult(dockerSocketPath, live)
    /\ yamlPc' = "done"
    /\ UNCHANGED <<phase, opts, agent, catalog, facPc, factories, facRet,
                   cancelledAt>>

(***************************************************************************)
(* NewKubeAgent.                                                           *)
(***************************************************************************)
\* func NewKubeAgent(opts ...KubeOptions) *KubeAgent
NewKubeAgent ==
    /\ phase = "start"
    /\ phase' = "constructed"
    /\ agent' = BuildKubeAgent(opts)
    /\ UNCHANGED <<opts, yamlPc, yamlRet, probes, catalog, facPc, factories,
                   facRet, cancelledAt>>

(***************************************************************************)
(* GetFactories.  A factory is the name it declares (Type()) and the       *)
(* package whose NewFactory built it.                                      *)
(***************************************************************************)
Kinds == <<"extensions", "receivers", "exporters", "processors">>

Factory(type, pkg) == [type |-> type, pkg |-> pkg]

\* the lists written in GetFactories, each factory under the name its
\* package's NewFactory declares
FixedCatalog ==
    [extensions |-> <<>>,
     receivers  |-> <<Factory("otlp", "otlpreceiver"),
                      Factory("fluentforward", "fluentforwardreceiver"),
                      Factory("filelog", "filelogreceiver"),
                      Factory("docker_stats", "dockerstatsreceiver"),
                      Factory("hostmetrics", "hostmetricsreceiver"),
                      Factory("k8s_cluster", "k8sclusterreceiver"),
                      Factory("k8s_events", "k8seventsreceiver"),
                      Factory("kubeletstats", "kubeletstatsreceiver"),
                      Factory("prometheus", "prometheusreceiver")>>,
     exporters  |-> <<Factory("logging", "loggingexporter"),
                      Factory("otlp", "otlpexporter"),
                      Factory("otlphttp", "otlphttpexporter")>>,
     processors |-> <<Factory("batch", "batchprocessor"),
                      Factory("memory_limiter", "memorylimiterprocessor"),
                      Factory("filter", "filterprocessor"),
                      Factory("attributes", "attributesprocessor"),
                      Factory("resource", "resourceprocessor"),
                      Factory("resourcedetection", "resourcedetectionprocessor"),
                      Factory("k8sattributes", "k8sattributesprocessor")>>]

\* otelcol.Factories{}: no map holds anything
EmptyFactories ==
    [extensions |-> <<>>, receivers |-> <<>>, exporters |-> <<>>,
     processors |-> <<>>]

\* the error MakeFactoryMap builds: fmt.Errorf("duplicate <kind> factory %q", name)
DuplicateErr(kind, name) == <<"duplicate factory", kind, name>>

\* the loop of MakeFactoryMap over the factories left, fMap built so far
RECURSIVE MakeFactoryMapFrom(_, _, _)
MakeFactoryMapFrom(kind, fs, fMap) ==
    IF fs = <<>> THEN [map |-> fMap, err |-> NilErr]
    ELSE LET f == Head(fs)
         IN IF f.type \in DOMAIN fMap
            THEN [map |-> fMap, err |-> DuplicateErr(kind, f.type)]
            ELSE MakeFactoryMapFrom(kind, Tail(fs), (f.type :> f) @@ fMap)

\* extension/receiver/exporter/processor.MakeFactoryMap(factories...)
MakeFactoryMap(kind, fs) == MakeFactoryMapFrom(kind, fs, <<>>)

\* the maps built so far are returned with the error
ErrReturn_Partial(fs, err) == [factories |-> fs, err |-> err]

\* what GetFactories returns when MakeFactoryMap gave err
ErrReturn(fs, err) == [factories |-> EmptyFactories, err |-> err]

\* return factories, nil
OkReturn(fs) == [factories |-> fs, err |-> NilErr]

\* the four kinds share one namespace: a name some other kind already holds
\* is refused as a duplicate
AssembleKind_SharedNamespace(kind, next) ==
    /\ facPc = kind
    /\ LET made == MakeFactoryMap(kind, catalog[kind])
           taken == UNION {DOMAIN factories[k] : k \in DOMAIN factories \ {kind}}
           clash == DOMAIN made.map \cap taken
           err == IF made.err = NilErr /\ clash # {}
                  THEN DuplicateErr(kind, CHOOSE n \in clash : TRUE)
                  ELSE made.err
           fs == [factories EXCEPT ![kind] = made.map]
       IN /\ factories' = fs
          /\ IF err # NilErr
             THEN facPc' = "done" /\ facRet' = ErrReturn(fs, err)
             ELSE /\ facPc' = next
                  /\ facRet' = IF next = "done" THEN OkReturn(fs) ELSE facRet
    /\ UNCHANGED <<phase, opts, agent, yamlPc, yamlRet, probes, catalog,
                   cancelledAt>>

\* ctx is looked at before each kind: if ctx.Err() != nil { return ..., ctx.Err() }
AssembleKind_CtxAware(kind, next) ==
    /\ facPc = kind
    /\ LET made == MakeFactoryMap(kind, catalog[kind])
           err == IF cancelledAt # "never" THEN <<"context canceled">>
                  ELSE made.err
           fs == IF cancelledAt # "never" THEN factories
                 ELSE [factories EXCEPT ![kind] = made.map]
       IN /\ factories' = fs
          /\ IF err # NilErr
             THEN facPc' = "done" /\ facRet' = ErrReturn(fs, err)
             ELSE /\ facPc' = next
                  /\ facRet' = IF next = "done" THEN OkReturn(fs) ELSE facRet
    /\ UNCHANGED <<phase, opts, agent, yamlPc, yamlRet, probes, catalog,
                   cancelledAt>>

\* one MakeFactoryMap call of GetFactories with the test of err that follows it:
\* factories.<kind>, err = MakeFactoryMap(...); if err != nil { return ... }
\* and, after the last kind, return factories, nil
AssembleKind(kind, next) ==
    /\ facPc = kind
    /\ LET made == MakeFactoryMap(kind, catalog[kind])
           fs == [factories EXCEPT ![kind] = made.map]
       IN /\ factories' = fs
          /\ IF made.err # NilErr
             THEN facPc' = "done" /\ facRet' = ErrReturn(fs, made.err)
             ELSE /\ facPc' = next
                  /\ facRet' = IF next = "done" THEN OkReturn(fs) ELSE facRet
    /\ UNCHANGED <<phase, opts, agent, yamlPc, yamlRet, probes, catalog,
                   cancelledAt>>

\* func (k *KubeAgent) GetFactories(ctx context.Context): entry,
\* var err error; factories := otelcol.Factories{}
GetFactories ==
    /\ phase = "constructed"
    /\ facPc = "idle"
    /\ facPc' = "extensions"
    /\ factories' = EmptyFactories
    /\ UNCHANGED <<phase, opts, agent, yamlPc, yamlRet, probes, catalog, facRet,
                   cancelledAt>>

MakeExtensions == AssembleKind("extensions", "receivers")

MakeReceivers == AssembleKind("receivers", "exporters")

MakeExporters == AssembleKind("exporters", "processors")

MakeProcessors == AssembleKind("processors", "done")

\* the caller cancels the ctx it passed (or passes) to GetFactories
CancelCtx ==
    /\ phase = "constructed"
    /\ cancelledAt = "never"
    /\ cancelledAt' = facPc
    /\ UNCHANGED <<phase, opts, agent, yamlPc, yamlRet, probes, catalog, facPc,
                   factories, facRet>>

(***************************************************************************)
(* Inputs.                                                                 *)
(***************************************************************************)
SeqsUpTo(S, n) == UNION {[1..k -> S] : k \in 0..n}

\* the characters endpoints are written with
Alphabet == {"/", "u", "s"}

Endpoints == SeqsUpTo(Alphabet, MaxEndpointLen)

\* unix:///var/run/test.sock, shortened
LiveSockEndpoint == <<"u", "/", "/", "/", "s">>

Options ==
    {WithKubeAgentApiKey(v) : v \in {"k", "k2"}}
    \cup {WithKubeAgentTarget(v) : v \in {"https://x", "https://y"}}
    \cup {WithKubeAgentEnableSyntheticMonitoring(v) : v \in BOOLEAN}
    \cup {WithKubeAgentConfigCheckInterval(v) : v \in {"60s", "5m"}}
    \cup {WithKubeAgentApiURLForConfigCheck(v) : v \in {"https://a", "https://b"}}
    \cup {WithKubeAgentLogger(v) : v \in CustomLoggers \cup {NilLogger}}
    \cup {WithKubeAgentDockerEndpoint(v) : v \in {LiveSockEndpoint, <<"s">>}}

OptionLists == SeqsUpTo(Options, MaxOpts)

\* option lists of a process start
StartupOpts ==
    {<<>>,
     <<WithKubeAgentApiKey("k"), WithKubeAgentTarget("https://x"),
       WithKubeAgentDockerEndpoint(LiveSockEndpoint)>>,
     <<WithKubeAgentLogger("L1"), WithKubeAgentDockerEndpoint(<<"s">>)>>,
     <<WithKubeAgentDockerEndpoint(<<"/", "/", "s", "/", "/", "s">>)>>}

\* the factory added to a kind's list by a catalog under test
Injected == Factory("otlp", "injected")

\* the fixed lists, each with up to MaxInject factories added at its end
Catalogs ==
    {[k \in DOMAIN FixedCatalog |-> FixedCatalog[k] \o [i \in 1..n[k] |-> Injected]] :
        n \in [DOMAIN FixedCatalog -> 0..MaxInject]}

(***************************************************************************)
(* Specifications.                                                         *)
(***************************************************************************)
\* before NewKubeAgent is called: the caller has its option list, the
\* program its factory lists
InitWith(optLists, cats) ==
    /\ phase = "start"
    /\ opts \in optLists
    /\ agent = KubeAgent
    /\ yamlPc = "idle"
    /\ yamlRet = [path |-> "", err |-> NilErr]
    /\ probes = <<>>
    /\ catalog \in cats
    /\ facPc = "idle"
    /\ factories = EmptyFactories
    /\ facRet = [factories |-> EmptyFactories, err |-> NilErr]
    /\ cancelledAt = "never"

Init == InitWith(StartupOpts, Catalogs)

\* a process start: construction, then the two calls in any interleaving
Next ==
    \/ NewKubeAgent
    \/ GetUpdatedYAMLPath
    \/ GetFactories
    \/ MakeExtensions
    \/ MakeReceivers
    \/ MakeExporters
    \/ MakeProcessors
    \/ CancelCtx

Spec == Init /\ [][Next]_vars

\* construction alone, over every option list
InitNew == InitWith(OptionLists, {FixedCatalog})

NextNew == NewKubeAgent

SpecNew == InitNew /\ [][NextNew]_vars

\* path selection, over every endpoint string
InitPath ==
    InitWith({<<WithKubeAgentDockerEndpoint(e)>> : e \in Endpoints},
             {FixedCatalog})

NextPath ==
    \/ NewKubeAgent
    \/ GetUpdatedYAMLPath

SpecPath == InitPath /\ [][NextPath]_vars

\* assembly, over every catalog, with the ctx cancelled at any point
InitFactories == InitWith({<<>>}, Catalogs)

NextFactories ==
    \/ NewKubeAgent
    \/ GetFactories
    \/ MakeExtensions
    \/ MakeReceivers
    \/ MakeExporters
    \/ MakeProcessors
    \/ CancelCtx

SpecFactories == InitFactories /\ [][NextFactories]_vars

(***************************************************************************)
(* What the properties speak of, said without the operators of the model.  *)
(***************************************************************************)
Min(S) == CHOOSE x \in S : \A y \in S : x <= y

Max(S) == CHOOSE x \in S : \A y \in S : x >= y

\* the places of s where a "//" starts
SepAt(s) == {i \in 1..(Len(s) - 1) : s[i] = "/" /\ s[i + 1] = "/"}

\* all text of s after its first "//"
AfterFirstSep(s) == SubSeq(s, Min(SepAt(s)) + 2, Len(s))

\* s holds a "//" and none in the text after the first one
OneSep(s) == SepAt(s) # {} /\ \A i \in SepAt(s) : i <= Min(SepAt(s)) + 1

\* s holds a "//" and another one in the text after the first one
SepAgain(s) == SepAt(s) # {} /\ \E i \in SepAt(s) : i >= Min(SepAt(s)) + 2

\* the last call of GetUpdatedYAMLPath asked isSocketFn once, about a
Probed(a) == Len(probes) = 1 /\ probes[1].arg = a

PathFor(live) == IF live THEN FullPath ELSE ReducedPath

\* the places of opts whose option writes field f
Setters(f) == {i \in 1..Len(opts) : opts[i].field = f}

\* the names a list of factories declares
Names(fs) == {fs[i].type : i \in 1..Len(fs)}

Range(fs) == {fs[i] : i \in 1..Len(fs)}

\* the places of fs whose name an earlier factory of fs declares too
Repeats(fs) == {j \in 1..Len(fs) : \E i \in 1..(j - 1) : fs[i].type = fs[j].type}

\* the kinds, by their place in Kinds, whose list declares a name twice
FailingKinds == {k \in 1..Len(Kinds) : Repeats(catalog[Kinds[k]]) # {}}

\* ctx was cancelled before GetFactories returned
CancelledEarly == cancelledAt \notin {"never", "done"}

(***************************************************************************)
(* C1.  Once GetUpdatedYAMLPath has returned, the path is the full         *)
(* configuration "/app/otel-config.yaml" if and only if the endpoint       *)
(* splits on "//" in exactly two segments and isSocketFn answered true on  *)
(* the second; in every other case it is "/app/otel-config-nodocker.yaml". *)
(***************************************************************************)
C1_FullPathIffTwoSegmentsAndLive ==
    yamlPc = "done" =>
        /\ yamlRet.path = FullPath <=>
              /\ OneSep(agent.dockerEndpoint)
              /\ probes = <<[arg |-> AfterFirstSep(agent.dockerEndpoint),
                             ans |-> TRUE]>>
        /\ yamlRet.path # FullPath => yamlRet.path = ReducedPath

C1_Witness ==
    /\ yamlPc = "done"
    /\ agent.dockerEndpoint = LiveSockEndpoint
    /\ yamlRet.path = FullPath

(***************************************************************************)
(* C2.  GetUpdatedYAMLPath never fails: whatever the endpoint and the      *)
(* probe's answer, the error is nil and the path is one of the two fixed   *)
(* paths.                                                                  *)
(***************************************************************************)
C2_PathSelectionNeverFails ==
    yamlPc = "done" =>
        /\ yamlRet.err = NilErr
        /\ yamlRet.path \in {FullPath, ReducedPath}

\* a malformed endpoint (no "//" in a non-empty string) has been decided
C2_Witness ==
    /\ yamlPc = "done"
    /\ agent.dockerEndpoint # <<>>
    /\ SepAt(agent.dockerEndpoint) = {}
    /\ yamlRet.path = ReducedPath

(***************************************************************************)
(* C3, as claimed.  For every endpoint that holds at least one "//" the    *)
(* probe is asked about all text after the first "//" and its answer       *)
(* alone decides the path.                                                 *)
(***************************************************************************)
C3_SplitAtFirstSepOnly ==
    (yamlPc = "done" /\ SepAt(agent.dockerEndpoint) # {}) =>
        /\ Probed(AfterFirstSep(agent.dockerEndpoint))
        /\ yamlRet.path = PathFor(probes[1].ans)

(***************************************************************************)
(* C3, amended.  The endpoint is split at every "//", left to right: if    *)
(* no "//" occurs in the text after the first one, the probe is asked      *)
(* about that text and its answer alone decides the path; if "//" occurs   *)
(* there again, the probe is not asked and the path is the reduced one.    *)
(***************************************************************************)
C3_SplitAtEverySep ==
    (yamlPc = "done" /\ SepAt(agent.dockerEndpoint) # {}) =>
        /\ OneSep(agent.dockerEndpoint) =>
              /\ Probed(AfterFirstSep(agent.dockerEndpoint))
              /\ yamlRet.path = PathFor(probes[1].ans)
        /\ SepAgain(agent.dockerEndpoint) =>
              /\ probes = <<>>
              /\ yamlRet.path = ReducedPath

C3_Witness ==
    /\ yamlPc = "done"
    /\ SepAgain(agent.dockerEndpoint)
    /\ Len(AfterFirstSep(agent.dockerEndpoint)) > 2
    /\ yamlRet.path = ReducedPath

(***************************************************************************)
(* C10, as claimed.  Every call of GetUpdatedYAMLPath asks isSocketFn      *)
(* exactly once, whatever the endpoint, about the second segment.          *)
(***************************************************************************)
C10_ExactlyOneProbe ==
    yamlPc = "done" =>
        /\ Len(probes) = 1
        /\ SepAt(agent.dockerEndpoint) # {} =>
              probes[1].arg = AfterFirstSep(agent.dockerEndpoint)

(***************************************************************************)
(* C10, amended.  A call of GetUpdatedYAMLPath asks isSocketFn at most     *)
(* once: once, about the second segment, when the endpoint splits in       *)
(* exactly two segments, and not at all otherwise.                         *)
(***************************************************************************)
C10_AtMostOneProbe ==
    yamlPc = "done" =>
        /\ Len(probes) <= 1
        /\ Len(probes) = 1 <=> OneSep(agent.dockerEndpoint)
        /\ Len(probes) = 1 =>
              probes[1].arg = AfterFirstSep(agent.dockerEndpoint)

\* a call that asked nothing
C10_Witness ==
    /\ yamlPc = "done"
    /\ agent.dockerEndpoint = <<>>
    /\ probes = <<>>

C7_LoggerAlwaysSet ==
    phase = "constructed" =>
        /\ agent.logger # NilLogger
        /\ Setters("logger") = {} => agent.logger = ProductionLogger
        /\ \A i \in Setters("logger") :
              (i = Max(Setters("logger")) /\ opts[i].value \in CustomLoggers)
                  => agent.logger = opts[i].value

\* options were supplied, none of them a logger
C7_Witness ==
    /\ phase = "constructed"
    /\ Len(opts) > 0
    /\ Setters("logger") = {}
    /\ agent.logger = ProductionLogger

(***************************************************************************)
(* C4.  When some kind's list declares a name twice, GetFactories returns  *)
(* the error of the first such kind in the order extensions, receivers,    *)
(* exporters, processors, as MakeFactoryMap made it, with a catalog whose  *)
(* four maps are empty; the kinds after the failing one are not            *)
(* assembled.                                                              *)
(***************************************************************************)
C4_AllOrNothing ==
    (facPc = "done" /\ FailingKinds # {}) =>
        LET k == Min(FailingKinds)
            fs == catalog[Kinds[k]]
        IN /\ facRet.err = DuplicateErr(Kinds[k], fs[Min(Repeats(fs))].type)
           /\ \A kind \in DOMAIN facRet.factories :
                 DOMAIN facRet.factories[kind] = {}
           /\ \A j \in (k + 1)..Len(Kinds) : DOMAIN factories[Kinds[j]] = {}

\* the exporters fail after the extensions and the receivers were built
C4_Witness ==
    /\ facPc = "done"
    /\ FailingKinds # {}
    /\ Min(FailingKinds) = 3
    /\ DOMAIN factories.receivers # {}
    /\ facRet.err # NilErr

(***************************************************************************)
(* C5.  When no list declares a name twice, GetFactories returns no error  *)
(* and a catalog in which each kind's keys are exactly the names its list  *)
(* declares, each key bound to the factory of the list that declares it;   *)
(* for the lists written in the code that is 0 extensions, 9 receivers, 3  *)
(* exporters and 7 processors.  A name held by one kind does not keep it   *)
(* out of another.                                                         *)
(***************************************************************************)
C5_CatalogIsTheFixedLists ==
    (facPc = "done" /\ FailingKinds = {}) =>
        /\ facRet.err = NilErr
        /\ \A kind \in DOMAIN catalog :
              /\ DOMAIN facRet.factories[kind] = Names(catalog[kind])
              /\ \A n \in DOMAIN facRet.factories[kind] :
                    /\ facRet.factories[kind][n] \in Range(catalog[kind])
                    /\ facRet.factories[kind][n].type = n
        /\ catalog = FixedCatalog =>
              /\ Cardinality(DOMAIN facRet.factories.extensions) = 0
              /\ Cardinality(DOMAIN facRet.factories.receivers) = 9
              /\ Cardinality(DOMAIN facRet.factories.exporters) = 3
              /\ Cardinality(DOMAIN facRet.factories.processors) = 7

\* the code's own lists: "otlp" is a receiver and an exporter
C5_Witness ==
    /\ facPc = "done"
    /\ catalog = FixedCatalog
    /\ facRet.err = NilErr
    /\ "otlp" \in DOMAIN facRet.factories.receivers
    /\ "otlp" \in DOMAIN facRet.factories.exporters

(***************************************************************************)
(* C9, as claimed.  When ctx is cancelled before GetFactories returns,     *)
(* GetFactories returns an error.                                          *)
(***************************************************************************)
C9_CancelFailsAssembly ==
    (facPc = "done" /\ CancelledEarly) => facRet.err # NilErr

(***************************************************************************)
(* C9, amended.  GetFactories does not look at ctx: when ctx is cancelled  *)
(* before it returns, it still returns an error exactly when some list     *)
(* declares a name twice, and otherwise the completed catalog.             *)
(***************************************************************************)
C9_CancelIsIgnored ==
    (facPc = "done" /\ CancelledEarly) =>
        /\ facRet.err = NilErr <=> FailingKinds = {}
        /\ FailingKinds = {} =>
              \A kind \in DOMAIN catalog :
                  DOMAIN facRet.factories[kind] = Names(catalog[kind])

\* cancelled while the receivers were assembled, and the catalog is returned
C9_Witness ==
    /\ facPc = "done"
    /\ cancelledAt = "receivers"
    /\ facRet.err = NilErr
    /\ DOMAIN facRet.factories.processors # {}

(***************************************************************************)
(* C8.  After NewKubeAgent has returned, no step of GetUpdatedYAMLPath or  *)
(* GetFactories, in any interleaving, changes a field of the KubeAgent,    *)
(* and a step of one of the two leaves alone what the other has computed   *)
(* and returned: whichever runs first, the path is decided by the endpoint *)
(* and the probe, and the assembly by the lists.                           *)
(***************************************************************************)
C8_IdentityImmutable ==
    /\ [][/\ phase = "constructed" => agent' = agent
          /\ <<facPc, factories, facRet>>' # <<facPc, factories, facRet>>
                => UNCHANGED <<yamlPc, yamlRet, probes>>
          /\ <<yamlPc, yamlRet, probes>>' # <<yamlPc, yamlRet, probes>>
                => UNCHANGED <<facPc, factories, facRet>>]_vars
    /\ [](/\ phase = "constructed" => agent = BuildKubeAgent(opts)
          /\ yamlPc = "done" =>
                (yamlRet.path = FullPath <=>
                    /\ OneSep(agent.dockerEndpoint)
                    /\ Len(probes) = 1 /\ probes[1].ans)
          /\ facPc = "done" => (facRet.err = NilErr <=> FailingKinds = {}))

\* the path was chosen while GetFactories was between two kinds
C8_Witness ==
    /\ phase = "constructed"
    /\ yamlPc = "done"
    /\ facPc = "exporters"
    /\ agent.dockerEndpoint = LiveSockEndpoint

=============================================================================
